---- MODULE Spec2Model ----
(***************************************************************************)
(* Model of fastapi_filter/contrib/geoalchemy/filter.py: the bounding-box  *)
(* type and converter, the operator transform table, the split_str         *)
(* pre-validator and Filter.filter.                                        *)
(*                                                                         *)
(* Python strings that the code inspects (field names, raw query-string    *)
(* values) are sequences of atoms, so that split / endswith / "in" are     *)
(* computed.  A field name is a sequence in which every "_" is an atom of  *)
(* its own and the other atoms are the maximal underscore-free runs:       *)
(* "geog__not_in" is <<"geog","_","_","not","_","in">>.  A raw value is a  *)
(* sequence of characters.                                                 *)
(***************************************************************************)
EXTENDS Integers, Sequences, FiniteSets, TLC

VARIABLES
    flt,      \* the filter instances: id -> [consts, fields]
    stack,    \* call stack of Filter.filter: frames [self, i, query]
    pc,       \* "idle" | "running" | "returned" | "raised"
    err,      \* the exception that left Filter.filter, "" when none
    result,   \* what Filter.filter returned to its caller
    input,    \* the query handed to the outermost Filter.filter
    calls,    \* the predicates handed to query.filter(...), in call order
    last,     \* what the last loop iteration did
    vfield,   \* split_str: the ModelField being validated
    vvalue,   \* split_str: the raw value
    vout,     \* split_str: what the validator produced
    vpc,      \* split_str: "idle" | "start" | "returned" | "raised" | "drained"
    bbox,     \* bounding box: the candidate tuple
    bout,     \* bounding box: outcome of validation / conversion
    bpc       \* bounding box: "idle" | "start" | "accepted" | "rejected" | "converted" | "transformed" | "raised"

vars == <<flt, stack, pc, err, result, input, calls, last,
          vfield, vvalue, vout, vpc, bbox, bout, bpc>>

filterVars == <<flt, stack, pc, err, result, input, calls, last>>
splitVars  == <<vfield, vvalue, vout, vpc>>
bboxVars   == <<bbox, bout, bpc>>

-----------------------------------------------------------------------------
(* Bounds of the model *)

\* fields declared on the outer filter
MaxFields == 3
\* fields declared on a nested filter
MaxChildFields == 1
\* characters in a raw query-string value
MaxLen == 4

-----------------------------------------------------------------------------
(* Python string primitives *)

\* s[i:i+len(sep)] == sep
MatchAt(s, i, sep) ==
    /\ i + Len(sep) - 1 <= Len(s)
    /\ SubSeq(s, i, i + Len(sep) - 1) = sep

\* sep in s
Contains(s, sep) == \E i \in 1..Len(s) : MatchAt(s, i, sep)

\* s.endswith(suffix)
EndsWith(s, suffix) ==
    /\ Len(suffix) <= Len(s)
    /\ SubSeq(s, Len(s) - Len(suffix) + 1, Len(s)) = suffix

RECURSIVE SplitFrom(_, _, _, _)
SplitFrom(s, sep, i, cur) ==
    IF i > Len(s) THEN <<cur>>
    ELSE IF MatchAt(s, i, sep)
         THEN <<cur>> \o SplitFrom(s, sep, i + Len(sep), <<>>)
         ELSE SplitFrom(s, sep, i + 1, Append(cur, s[i]))

\* s.split(sep): left to right, non-overlapping, empty pieces kept
Split(s, sep) == SplitFrom(s, sep, 1, <<>>)

DUNDER == <<"_", "_">>
COMMA  == <<",">>

-----------------------------------------------------------------------------
(* Values *)

StrVal(s)    == [t |-> "str", s |-> s]
SeqVal(q)    == [t |-> "seq", q |-> q]
BoolVal(b)   == [t |-> "bool", b |-> b]
NoneVal      == [t |-> "none"]
FilterVal(f) == [t |-> "filter", id |-> f]

-----------------------------------------------------------------------------
(* Bounding box and operator transform table *)

SRS_WGS_84 == 4326

\* functions.ST_MakeEnvelope(*args): the SQL function call with the arguments given
ST_MakeEnvelope(args) == [t |-> "func", fn |-> "ST_MakeEnvelope", args |-> args]

\* bbox[0..3] are read by index; a shorter list raises IndexError
bbox_to_geometry(b) ==
    IF Len(b) < 4 THEN [status |-> "raised", err |-> "IndexError", value |-> NoneVal]
    ELSE [status |-> "ok", err |-> "",
          value |-> ST_MakeEnvelope(<<b[1], b[2], b[3], b[4]>>)]

\* keys of the base table (fastapi_filter.contrib.sqlalchemy.filter)
sqla_operator_keys ==
    { <<"in">>, <<"not", "_", "in">>, <<"gt">>, <<"lte">>, <<"isnull">> }

\* the base table's transforms
_sqla_orm_operator_transformer(key, value) ==
    CASE key = <<"in">>              -> [status |-> "ok", err |-> "", op |-> "in_", value |-> value]
      [] key = <<"not", "_", "in">>  -> [status |-> "ok", err |-> "", op |-> "not_in", value |-> value]
      [] key = <<"gt">>              -> [status |-> "ok", err |-> "", op |-> "__gt__", value |-> value]
      [] key = <<"lte">>             -> [status |-> "ok", err |-> "", op |-> "__le__", value |-> value]
      [] key = <<"isnull">>          ->
             IF value = BoolVal(TRUE)
             THEN [status |-> "ok", err |-> "", op |-> "is_", value |-> NoneVal]
             ELSE [status |-> "ok", err |-> "", op |-> "is_not", value |-> NoneVal]

\* keys of _orm_operator_transformer: the base keys and "bbox"
orm_operator_keys == sqla_operator_keys \cup { <<"bbox">> }

\* _orm_operator_transformer[key](value); key must be a key of the table
_orm_operator_transformer(key, value) ==
    IF key = <<"bbox">>
    THEN LET g == bbox_to_geometry(value.q)
         IN  [status |-> g.status, err |-> g.err, op |-> "contained", value |-> g.value]
    ELSE _sqla_orm_operator_transformer(key, value)

-----------------------------------------------------------------------------
(* The mapped model class and find_type *)

\* class -> [has_table: hasattr(class_, "__table__"), columns: __table__.c,
\*           attrs: the names getattr(class_, name) resolves, bases: __bases__]
Classes ==
    [ Place  |-> [has_table |-> TRUE,
                  columns   |-> { [name |-> <<"id">>,    type |-> "Integer"],
                                  [name |-> <<"name">>,  type |-> "String"],
                                  [name |-> <<"descr">>, type |-> "String"],
                                  [name |-> <<"geom">>,  type |-> "Geometry"],
                                  [name |-> <<"geog">>,  type |-> "Geography"] },
                  attrs     |-> { <<"id">>, <<"name">>, <<"descr">>, <<"geom">>,
                                  <<"geog">>, <<"owner">> },
                  bases     |-> <<"Base">>],
      Base   |-> [has_table |-> FALSE, columns |-> {}, attrs |-> {}, bases |-> <<"object">>],
      object |-> [has_table |-> FALSE, columns |-> {}, attrs |-> {}, bases |-> <<>>] ]

NoType == "<NameError>"

RECURSIVE find_type(_, _)
\* the first base only is searched: the loop returns in its first iteration
find_type(class, colname) ==
    LET c == Classes[class]
    IN  IF c.has_table /\ \E col \in c.columns : col.name = colname
        THEN (CHOOSE col \in c.columns : col.name = colname).type
        ELSE IF Len(c.bases) > 0 THEN find_type(c.bases[1], colname)
        ELSE NoType

\* hasattr(model, name)
HasAttr(class, name) == name \in Classes[class].attrs

-----------------------------------------------------------------------------
(* Queries and predicates.  A query is the sequence of predicates ANDed    *)
(* onto it; query.filter(p) returns a new query and leaves the receiver    *)
(* unchanged.                                                              *)

\* the model attribute itself
Column(attr) == [attr |-> attr, cast |-> "", srid |-> 0]

\* cast(model_field, Geometry(srid=srid))
CastGeometry(attr, srid) == [attr |-> attr, cast |-> "Geometry", srid |-> srid]

\* getattr(column, operator)(value)
Compare(column, op, value) ==
    [kind |-> "cmp", column |-> column, op |-> op, value |-> value, clauses |-> <<>>]

\* getattr(model, attr).ilike("%" + value + "%")
ILike(attr, value) ==
    [kind |-> "ilike", column |-> Column(attr), op |-> "ilike",
     value |-> StrVal(<<"%">> \o value.s \o <<"%">>), clauses |-> <<>>]

\* or_(*clauses)
Or(clauses) ==
    [kind |-> "or", column |-> Column(<<>>), op |-> "or", value |-> NoneVal, clauses |-> clauses]

\* a predicate the input query already carries
PrePredicate == Compare(Column(<<"id">>), "__gt__", SeqVal(<<0>>))

\* query.filter(p)
QueryFilter(query, p) == Append(query, p)

-----------------------------------------------------------------------------
(* Filter instances *)

\* Constants of a filter class: the model, the search field's name and, when the
\* class sets them, the searchable attributes (has_search_model_fields is
\* hasattr(self.Constants, "search_model_fields"))
ConstantsPlain ==
    [model |-> "Place", search_field_name |-> <<"search">>,
     has_search_model_fields |-> FALSE, search_model_fields |-> <<>>]

ConstantsSearch2 ==
    [model |-> "Place", search_field_name |-> <<"search">>,
     has_search_model_fields |-> TRUE, search_model_fields |-> << <<"name">>, <<"descr">> >>]

ConstantsSearch1 ==
    [model |-> "Place", search_field_name |-> <<"search">>,
     has_search_model_fields |-> TRUE, search_model_fields |-> << <<"geog">> >>]

BoxValue == SeqVal(<<10, 20, 30, 40>>)

\* the (field name, value) pairs a nested filter may declare
ChildPool ==
    { [name |-> <<"geog">>,                      value |-> StrVal(<<"P">>)],
      [name |-> <<"geog", "_", "_", "bbox">>,    value |-> BoxValue],
      [name |-> <<"name">>,                      value |-> StrVal(<<"x">>)],
      [name |-> <<"search">>,                    value |-> StrVal(<<"y">>)] }

\* the (field name, value) pairs the outer filter may declare
FieldPool ==
    ChildPool \cup
    { [name |-> <<"geom", "_", "_", "bbox">>,    value |-> BoxValue],
      [name |-> <<"geog", "_", "_", "isnull">>,  value |-> BoolVal(TRUE)],
      [name |-> <<"geog", "_", "_", "bogus">>,   value |-> StrVal(<<"x">>)],
      [name |-> <<"geog", "_", "_", "x", "_", "_", "bogus">>, value |-> StrVal(<<"x">>)],
      [name |-> <<"missing", "_", "_", "gt">>,   value |-> SeqVal(<<1>>)],
      [name |-> <<"owner">>,                     value |-> SeqVal(<<1>>)],
      [name |-> <<"child">>,                     value |-> FilterVal("child")] }

\* the orders in which at most n distinct entries of pool can be declared
Declarations(pool, n) ==
    UNION { { q \in [1..k -> pool] : \A i, j \in 1..k : i # j => q[i].name # q[j].name }
            : k \in 0..n }

HasSearch(fields) == \E i \in 1..Len(fields) : fields[i].name = <<"search">>

HasNested(fields) == \E i \in 1..Len(fields) : fields[i].value.t = "filter"

\* Filter.filtering_fields of the base class: the declared fields that were set
\* to a value other than None, in declaration order
filtering_fields(f) == f.fields

NoQuery == [returned |-> FALSE, query |-> <<>>]
Returned(q) == [returned |-> TRUE, query |-> q]

NoStep ==
    [branch |-> "none", self |-> "", name |-> <<>>, field_name |-> <<>>,
     operator |-> "", value |-> NoneVal, before |-> <<>>, ncalls |-> 0]

InitFilter ==
    /\ \E pf \in Declarations(FieldPool, MaxFields),
          cf \in Declarations(ChildPool, MaxChildFields),
          pc0 \in {ConstantsPlain, ConstantsSearch2},
          cc0 \in {ConstantsSearch1, ConstantsPlain} :
          \* a nested filter exists only as the value of a declared field, and
          \* the search configuration is read only for a declared search field
          /\ ~HasNested(pf) => cf = <<>>
          /\ ~HasSearch(pf) => pc0 = ConstantsPlain
          /\ ~HasSearch(cf) => cc0 = ConstantsPlain
          /\ flt = [parent |-> [consts |-> pc0, fields |-> pf],
                    child  |-> [consts |-> cc0, fields |-> cf]]
    /\ input \in { <<>>, <<PrePredicate>> }
    /\ stack = <<[self |-> "parent", i |-> 1, query |-> input]>>
    /\ pc = "running"
    /\ err = ""
    /\ result = NoQuery
    /\ calls = <<>>
    /\ last = NoStep

IdleFilter ==
    /\ flt = [parent |-> [consts |-> ConstantsPlain, fields |-> <<>>],
              child  |-> [consts |-> ConstantsPlain, fields |-> <<>>]]
    /\ input = <<>>
    /\ stack = <<>>
    /\ pc = "idle"
    /\ err = ""
    /\ result = NoQuery
    /\ calls = <<>>
    /\ last = NoStep

-----------------------------------------------------------------------------
(* Filter.filter *)

Top   == stack[Len(stack)]
Self  == flt[Top.self]
InLoop == pc = "running" /\ Len(stack) > 0 /\ Top.i <= Len(filtering_fields(Self))
Entry == filtering_fields(Self)[Top.i]

\* lines 103-107: the column name, operator name and value of a non-nested field
ResolveOperator(name, value) ==
    IF Contains(name, DUNDER)
    THEN LET parts == Split(name, DUNDER)
         IN  IF Len(parts) # 2
             THEN [status |-> "raised", err |-> "ValueError", field_name |-> name,
                   operator |-> "", value |-> value]
             ELSE IF parts[2] \notin orm_operator_keys
             THEN [status |-> "raised", err |-> "KeyError", field_name |-> parts[1],
                   operator |-> "", value |-> value]
             ELSE LET r == _orm_operator_transformer(parts[2], value)
                  IN  [status |-> r.status, err |-> r.err, field_name |-> parts[1],
                       operator |-> r.op, value |-> r.value]
    ELSE [status |-> "ok", err |-> "", field_name |-> name,
          operator |-> "__eq__", value |-> value]

\* line 109
IsSearch(consts, field_name) ==
    field_name = consts.search_field_name /\ consts.has_search_model_fields

\* the search branch with the result of query.filter thrown away
SearchBranchDiscarded(query, consts, value) ==
    LET clauses == [k \in 1..Len(consts.search_model_fields) |->
                       ILike(consts.search_model_fields[k], value)]
    IN  [status |-> "ok", err |-> "", query |-> query, called |-> <<Or(clauses)>>]

\* lines 111-114: the query the search branch assigns to the accumulator
SearchBranch(query, consts, value) ==
    LET clauses == [k \in 1..Len(consts.search_model_fields) |->
                       ILike(consts.search_model_fields[k], value)]
    IN  [status |-> "ok", err |-> "", query |-> QueryFilter(query, Or(clauses)),
         called |-> <<Or(clauses)>>]

\* the geography branch comparing the raw column
GeographyBranchRaw(query, field_name, operator, value) ==
    LET p == Compare(Column(field_name), operator, value)
    IN  [status |-> "ok", err |-> "", query |-> QueryFilter(query, p), called |-> <<p>>]

\* line 120: the query the geography branch assigns to the accumulator
GeographyBranch(query, field_name, operator, value) ==
    LET p == Compare(CastGeometry(field_name, SRS_WGS_84), operator, value)
    IN  [status |-> "ok", err |-> "", query |-> QueryFilter(query, p), called |-> <<p>>]

\* line 122 had getattr been given both arguments: the predicate is handed to
\* query.filter and the query it returns is thrown away
OtherBranchDiscards(query, field_name, operator, value) ==
    [status |-> "ok", err |-> "", query |-> query,
     called |-> <<Compare(Column(field_name), operator, value)>>]

\* line 122: getattr(model_field) is evaluated as the first argument of
\* query.filter and takes one argument only, which raises TypeError before
\* query.filter is called
OtherBranch(query, field_name, operator, value) ==
    [status |-> "raised", err |-> "TypeError", query |-> query, called |-> <<>>]

\* what one loop iteration on a non-nested field does, lines 103-122
Iteration(query, consts, name, value) ==
    LET r == ResolveOperator(name, value)
    IN  IF r.status # "ok"
        THEN [branch |-> "resolve", r |-> r,
              out |-> [status |-> "raised", err |-> r.err, query |-> query, called |-> <<>>]]
        ELSE IF IsSearch(consts, r.field_name)
        THEN [branch |-> "search", r |-> r, out |-> SearchBranch(query, consts, r.value)]
        ELSE IF ~HasAttr(consts.model, r.field_name)
        THEN [branch |-> "getattr", r |-> r,
              out |-> [status |-> "raised", err |-> "AttributeError", query |-> query,
                       called |-> <<>>]]
        ELSE IF find_type(consts.model, r.field_name) = NoType
        THEN [branch |-> "find_type", r |-> r,
              out |-> [status |-> "raised", err |-> "NameError", query |-> query,
                       called |-> <<>>]]
        ELSE IF find_type(consts.model, r.field_name) = "Geography"
        THEN [branch |-> "geography", r |-> r,
              out |-> GeographyBranch(query, r.field_name, r.operator, r.value)]
        ELSE [branch |-> "other", r |-> r,
              out |-> OtherBranch(query, r.field_name, r.operator, r.value)]

StepRecord(branch, r) ==
    [branch |-> branch, self |-> Top.self, name |-> Entry.name,
     field_name |-> r.field_name, operator |-> r.operator, value |-> r.value,
     before |-> Top.query, ncalls |-> Len(calls)]

\* the iteration ends by assigning the accumulator, or by raising out of every frame
Finish(it) ==
    /\ last' = StepRecord(it.branch, it.r)
    /\ calls' = calls \o it.out.called
    /\ IF it.out.status = "ok"
       THEN /\ stack' = [stack EXCEPT ![Len(stack)] =
                            [@ EXCEPT !.i = @ + 1, !.query = it.out.query]]
            /\ UNCHANGED <<pc, err>>
       ELSE /\ stack' = <<>>
            /\ pc' = "raised"
            /\ err' = it.out.err
    /\ UNCHANGED <<flt, input, result, splitVars, bboxVars>>

NonNested == InLoop /\ Entry.value.t # "filter"
Current == Iteration(Top.query, Self.consts, Entry.name, Entry.value)

\* lines 100-101: the field holds a filter; its filter() is called with the accumulator
StepNested ==
    /\ InLoop
    /\ Entry.value.t = "filter"
    /\ stack' = Append(stack, [self |-> Entry.value.id, i |-> 1, query |-> Top.query])
    /\ last' = [NoStep EXCEPT !.branch = "nested", !.self = Top.self, !.name = Entry.name,
                              !.before = Top.query, !.ncalls = Len(calls)]
    /\ UNCHANGED <<flt, input, pc, err, result, calls, splitVars, bboxVars>>

\* lines 104-105 raise: the name does not unpack into two, or the suffix is no key
StepResolveFails == NonNested /\ Current.branch = "resolve" /\ Finish(Current)

\* lines 109-114
StepSearch == NonNested /\ Current.branch = "search" /\ Finish(Current)

\* line 116 raises AttributeError
StepNoAttribute == NonNested /\ Current.branch = "getattr" /\ Finish(Current)

\* line 117 raises NameError
StepNoColumn == NonNested /\ Current.branch = "find_type" /\ Finish(Current)

\* lines 119-120
StepGeography == NonNested /\ Current.branch = "geography" /\ Finish(Current)

\* lines 121-122
StepOther == NonNested /\ Current.branch = "other" /\ Finish(Current)

\* line 124: return query, to the caller's assignment on line 101 or to the outer caller
Return ==
    /\ pc = "running"
    /\ Len(stack) > 0
    /\ Top.i > Len(filtering_fields(Self))
    /\ IF Len(stack) = 1
       THEN /\ stack' = <<>>
            /\ pc' = "returned"
            /\ result' = Returned(Top.query)
       ELSE /\ stack' = [SubSeq(stack, 1, Len(stack) - 1) EXCEPT ![Len(stack) - 1] =
                            [@ EXCEPT !.i = @ + 1, !.query = Top.query]]
            /\ UNCHANGED <<pc, result>>
    /\ last' = [NoStep EXCEPT !.branch = "return", !.self = Top.self, !.before = Top.query,
                        !.ncalls = Len(calls)]
    /\ UNCHANGED <<flt, input, err, calls, splitVars, bboxVars>>

Next ==
    \/ StepNested
    \/ StepResolveFails
    \/ StepSearch
    \/ StepNoAttribute
    \/ StepNoColumn
    \/ StepGeography
    \/ StepOther
    \/ Return

-----------------------------------------------------------------------------
(* split_str, the pre-validator of every field *)

\* Constants.ordering_field_name of the base class
ordering_field_name == <<"order", "_", "by">>

IntVal(n) == [t |-> "int", n |-> n]

Digits == {"1", "2"}
DigitValue(c) == IF c = "1" THEN 1 ELSE 2

RECURSIVE Decimal(_)
Decimal(piece) ==
    IF Len(piece) = 0 THEN 0
    ELSE 10 * Decimal(SubSeq(piece, 1, Len(piece) - 1)) + DigitValue(piece[Len(piece)])

\* whether field.type_(piece) returns; int() raises ValueError on "" and on a non-digit
Coercible(type_, piece) ==
    type_ = "int" => (Len(piece) > 0 /\ \A k \in 1..Len(piece) : piece[k] \in Digits)

\* field.type_(piece), for a piece it accepts
Coerce(type_, piece) ==
    IF type_ = "int" THEN IntVal(Decimal(piece)) ELSE StrVal(piece)

\* [field.type_(v) for v in pieces]: the first piece that does not coerce raises
CoerceAll(type_, pieces) ==
    IF \A k \in 1..Len(pieces) : Coercible(type_, pieces[k])
    THEN [status |-> "ok", err |-> "",
          items |-> [k \in 1..Len(pieces) |-> Coerce(type_, pieces[k])]]
    ELSE [status |-> "raised", err |-> "ValueError", items |-> <<>>]

\* lines 86-91: the condition under which the value is split
Splits(field, value) ==
    /\ \/ field.name = ordering_field_name
       \/ EndsWith(field.name, <<"_", "_", "in">>)
       \/ EndsWith(field.name, <<"_", "_", "not", "_", "in">>)
       \/ EndsWith(field.name, <<"_", "_", "bbox">>)
    /\ value.t = "str"

\* split_str dropping the empty pieces, as value.split() without a separator does
split_str_skips_empty(field, value) ==
    LET pieces == SelectSeq(Split(value.s, COMMA), LAMBDA x : Len(x) > 0)
    IN  IF Splits(field, value)
        THEN IF field.shape = "SHAPE_TUPLE"
             THEN [status |-> "ok", err |-> "", kind |-> "generator", items |-> <<>>,
                   pending |-> pieces, value |-> value]
             ELSE LET c == CoerceAll(field.type_, pieces)
                  IN  [status |-> c.status, err |-> c.err, kind |-> "list",
                       items |-> c.items, pending |-> <<>>, value |-> value]
        ELSE [status |-> "ok", err |-> "", kind |-> "value", items |-> <<>>,
              pending |-> <<>>, value |-> value]

\* lines 84-95.  kind "generator": value.split(",") has been evaluated, field.type_
\* is applied to a piece only when the consumer asks for it
split_str(field, value) ==
    IF Splits(field, value)
    THEN IF field.shape = "SHAPE_TUPLE"
         THEN [status |-> "ok", err |-> "", kind |-> "generator", items |-> <<>>,
               pending |-> Split(value.s, COMMA), value |-> value]
         ELSE LET c == CoerceAll(field.type_, Split(value.s, COMMA))
              IN  [status |-> c.status, err |-> c.err, kind |-> "list", items |-> c.items,
                   pending |-> <<>>, value |-> value]
    ELSE [status |-> "ok", err |-> "", kind |-> "value", items |-> <<>>,
          pending |-> <<>>, value |-> value]

NoOutput ==
    [status |-> "", err |-> "", kind |-> "", items |-> <<>>, pending |-> <<>>,
     value |-> NoneVal]

Alphabet == {"1", "2", ",", "x"}

RawStrings == UNION { [1..k -> Alphabet] : k \in 0..MaxLen }

FieldNames ==
    { <<"id", "_", "_", "in">>, <<"id", "_", "_", "not", "_", "in">>,
      <<"geog", "_", "_", "bbox">>, ordering_field_name,
      <<"id", "_", "in">>, <<"name">> }

InitSplit ==
    /\ vfield \in [name : FieldNames,
                   shape : {"SHAPE_SINGLETON", "SHAPE_LIST", "SHAPE_TUPLE"},
                   type_ : {"int", "str"}]
    /\ vvalue \in {StrVal(r) : r \in RawStrings} \cup {SeqVal(<<1, 2>>)}
    /\ vout = NoOutput
    /\ vpc = "start"

IdleSplit ==
    /\ vfield = [name |-> <<>>, shape |-> "", type_ |-> ""]
    /\ vvalue = NoneVal
    /\ vout = NoOutput
    /\ vpc = "idle"

\* the validation framework calls the pre-validator with the raw value
CallSplitStr ==
    /\ vpc = "start"
    /\ vout' = split_str(vfield, vvalue)
    /\ vpc' = IF vout'.status = "ok" THEN "returned" ELSE "raised"
    /\ UNCHANGED <<vfield, vvalue, filterVars, bboxVars>>

\* the framework iterates the generator returned for a tuple-shaped field
ConsumeGenerator ==
    /\ vpc = "returned"
    /\ vout.kind = "generator"
    /\ LET c == CoerceAll(vfield.type_, vout.pending)
       IN  /\ vout' = [vout EXCEPT !.status = c.status, !.err = c.err, !.items = c.items,
                                   !.pending = <<>>]
           /\ vpc' = IF c.status = "ok" THEN "drained" ELSE "raised"
    /\ UNCHANGED <<vfield, vvalue, filterVars, bboxVars>>

NextSplit ==
    \/ CallSplitStr
    \/ ConsumeGenerator

-----------------------------------------------------------------------------
(* BoundingBox and the "bbox" transform *)

\* lines 23-28: a 4-tuple whose components satisfy, in order,
\* ge=-90, ge=-180, le=90, le=180
BoundingBox(b) ==
    /\ Len(b) = 4
    /\ b[1] >= -90
    /\ b[2] >= -180
    /\ b[3] <= 90
    /\ b[4] <= 180

Coordinates == {-200, -180, -90, 0, 90, 180, 200}

NoGeometry == [status |-> "", err |-> "", op |-> "", value |-> NoneVal]

InitBBox ==
    /\ bbox \in [1..4 -> Coordinates] \cup [1..3 -> {-90, 0, 90}]
    /\ bout = NoGeometry
    /\ bpc = "start"

IdleBBox ==
    /\ bbox = <<>>
    /\ bout = NoGeometry
    /\ bpc = "idle"

\* a value is validated against the BoundingBox type
ValidateBoundingBox ==
    /\ bpc = "start"
    /\ bpc' = IF BoundingBox(bbox) THEN "accepted" ELSE "rejected"
    /\ UNCHANGED <<bbox, bout, filterVars, splitVars>>

\* bbox_to_geometry(bbox), on a validated tuple or on a list passed directly
CallBboxToGeometry ==
    /\ bpc \in {"start", "accepted"}
    /\ LET g == bbox_to_geometry(bbox)
       IN  /\ bout' = [status |-> g.status, err |-> g.err, op |-> "", value |-> g.value]
           /\ bpc' = IF g.status = "ok" THEN "converted" ELSE "raised"
    /\ UNCHANGED <<bbox, filterVars, splitVars>>

\* _orm_operator_transformer["bbox"](bbox) on a validated tuple
CallBboxTransform ==
    /\ bpc = "accepted"
    /\ bout' = _orm_operator_transformer(<<"bbox">>, SeqVal(bbox))
    /\ bpc' = IF bout'.status = "ok" THEN "transformed" ELSE "raised"
    /\ UNCHANGED <<bbox, filterVars, splitVars>>

NextBBox ==
    \/ ValidateBoundingBox
    \/ CallBboxToGeometry
    \/ CallBboxTransform

-----------------------------------------------------------------------------
(* Properties of Filter.filter (specification Spec) *)

Finished == pc \in {"returned", "raised"}

\* the value the filter self holds for its declared field name
DeclaredValue(self, name) ==
    LET fs == filtering_fields(flt[self])
    IN  fs[CHOOSE i \in 1..Len(fs) : fs[i].name = name].value

ColumnNames(class) == { col.name : col \in Classes[class].columns }

\* a declared non-nested field that names a column of the model (or the configured
\* search field) and carries at most one suffix, which is a key of the table
WellFormedField(consts, e) ==
    LET parts == Split(e.name, DUNDER)
    IN  /\ Len(parts) <= 2
        /\ Len(parts) = 2 => parts[2] \in orm_operator_keys
        /\ \/ parts[1] = consts.search_field_name /\ consts.has_search_model_fields
           \/ parts[1] \in ColumnNames(consts.model)

WellFormedFilter(self) ==
    \A i \in 1..Len(flt[self].fields) :
        LET e == flt[self].fields[i]
        IN  IF e.value.t = "filter"
            THEN \A j \in 1..Len(flt[e.value.id].fields) :
                     WellFormedField(flt[e.value.id].consts, flt[e.value.id].fields[j])
            ELSE WellFormedField(flt[self].consts, e)

\* the number of predicates the fields of self stand for, nested fields included
RECURSIVE PredicateCount(_, _)
PredicateCount(self, i) ==
    IF i > Len(flt[self].fields) THEN 0
    ELSE LET e == flt[self].fields[i]
         IN  (IF e.value.t = "filter" THEN PredicateCount(e.value.id, 1) ELSE 1)
             + PredicateCount(self, i + 1)

\* the state right after a loop iteration that did not raise
Assigned == pc = "running" /\ Len(stack) > 0 /\ last.self = Top.self

\* C1: for every filter whose fields all resolve, Filter.filter returns a query
\* that is the input query followed by one predicate for each declared field,
\* the fields of nested filters included; no predicate is lost.
C1_EveryFieldPredicateApplied ==
    (Finished /\ WellFormedFilter("parent")) =>
        /\ pc = "returned"
        /\ result.returned
        /\ Len(result.query) = Len(input) + PredicateCount("parent", 1)
        /\ SubSeq(result.query, 1, Len(input)) = input

\* C2: a non-nested, non-search field whose name carries no "__" suffix has the
\* predicate attribute == value applied to the query, whatever the column type.
C2_NoSuffixMeansEquality ==
    (last.branch \in {"geography", "other"} /\ ~Contains(last.name, DUNDER)) =>
        /\ Assigned
        /\ Len(Top.query) = Len(last.before) + 1
        /\ SubSeq(Top.query, 1, Len(last.before)) = last.before
        /\ LET p == Top.query[Len(Top.query)]
           IN  /\ p.kind = "cmp"
               /\ p.op = "__eq__"
               /\ p.column.attr = last.name
               /\ p.value = DeclaredValue(last.self, last.name)

\* C3: for the search field of a filter whose Constants configure search
\* attributes a1..an, with value x, the iteration appends exactly one predicate,
\* the OR over every ai of ai ILIKE '%x%', and no comparison predicate.
C3_SearchAppendsOneDisjunction ==
    last.branch = "search" =>
        /\ Assigned
        /\ Len(Top.query) = Len(last.before) + 1
        /\ SubSeq(Top.query, 1, Len(last.before)) = last.before
        /\ Len(calls) = last.ncalls + 1
        /\ calls[Len(calls)] = Top.query[Len(Top.query)]
        /\ LET p == Top.query[Len(Top.query)]
               attrs == flt[last.self].consts.search_model_fields
               x == DeclaredValue(last.self, last.name)
           IN  /\ p.kind = "or"
               /\ Len(p.clauses) = Len(attrs)
               /\ \A k \in 1..Len(attrs) :
                     /\ p.clauses[k].kind = "ilike"
                     /\ p.clauses[k].column = [attr |-> attrs[k], cast |-> "", srid |-> 0]
                     /\ p.clauses[k].value = StrVal(<<"%">> \o x.s \o <<"%">>)

C3_Witness ==
    /\ last.branch = "search"
    /\ Assigned
    /\ Len(flt[last.self].consts.search_model_fields) = 2
    /\ Len(last.before) > 0
    /\ Len(Top.query) = Len(last.before) + 1

\* C4: for a non-nested, non-search field on a geography column, the predicate
\* appended is built on the column cast to Geometry with srid 4326, never on the
\* raw column, with the operator and value resolved for the field (equality and
\* the declared value without a suffix, "contained" and an envelope for bbox),
\* and the query returned by that filter call becomes the accumulator.
C4_GeographyPredicateOnCast ==
    last.branch = "geography" =>
        /\ Assigned
        /\ Top.query = Append(last.before, Top.query[Len(Top.query)])
        /\ Len(calls) = last.ncalls + 1
        /\ calls[Len(calls)] = Top.query[Len(Top.query)]
        /\ LET p == Top.query[Len(Top.query)]
               declared == DeclaredValue(last.self, last.name)
           IN  /\ p.kind = "cmp"
               /\ p.column = [attr |-> last.field_name, cast |-> "Geometry", srid |-> 4326]
               /\ p.column # Column(last.field_name)
               /\ p.op = last.operator
               /\ p.value = last.value
               /\ ~Contains(last.name, DUNDER) => (p.op = "__eq__" /\ p.value = declared)
               /\ EndsWith(last.name, <<"_", "_", "bbox">>) =>
                      /\ p.op = "contained"
                      /\ p.value.fn = "ST_MakeEnvelope"
                      /\ SubSeq(p.value.args, 1, 4) = declared.q

C4_Witness ==
    /\ last.branch = "geography"
    /\ Assigned
    /\ EndsWith(last.name, <<"_", "_", "bbox">>)
    /\ Len(last.before) > 0
    /\ Top.query[Len(Top.query)].column.cast = "Geometry"

\* C5: a parent filter with a nested child filter, all of whose fields resolve,
\* returns the input query followed by the predicates of the siblings declared
\* before the nested field, the child's predicates and the predicates of the
\* siblings declared after it: none is dropped.
C5_NestedAndSiblingPredicatesKept ==
    (Finished /\ HasNested(flt["parent"].fields) /\ WellFormedFilter("parent")) =>
        /\ result.returned
        /\ LET n == Len(flt["parent"].fields)
               c == Len(flt["child"].fields)
           IN  Len(result.query) = Len(input) + (n - 1) + c

\* C7: a non-nested field whose operator suffix is no key of the transform table
\* makes Filter.filter raise a lookup error (KeyError) and return no query, also
\* when the name holds more than one "__".
C7_UnknownSuffixIsLookupError ==
    LET parts == Split(last.name, DUNDER)
    IN  (last.branch = "resolve" /\ parts[Len(parts)] \notin orm_operator_keys) =>
            /\ pc = "raised"
            /\ err = "KeyError"
            /\ result = NoQuery

-----------------------------------------------------------------------------
(* Properties of split_str (specification SpecSplit) *)

\* the number of commas in s
CommaCount(s) == Cardinality({ i \in 1..Len(s) : s[i] = "," })

\* the position of the k-th comma of s; 0 for k = 0, Len(s) + 1 past the last
CommaAt(s, k) ==
    IF k = 0 THEN 0
    ELSE IF k > CommaCount(s) THEN Len(s) + 1
    ELSE CHOOSE i \in 1..Len(s) :
             s[i] = "," /\ Cardinality({ j \in 1..i : s[j] = "," }) = k

\* the k-th comma-separated piece of s
Piece(s, k) == SubSeq(s, CommaAt(s, k - 1) + 1, CommaAt(s, k) - 1)

\* items is the sequence of the pieces of s, each coerced to type_
IsCoercedPieces(items, type_, s) ==
    /\ Len(items) = CommaCount(s) + 1
    /\ \A k \in 1..Len(items) :
          /\ Coercible(type_, Piece(s, k))
          /\ items[k] = Coerce(type_, Piece(s, k))

\* a field split_str is about, given a string
Applies == vpc # "idle" /\ Splits(vfield, vvalue)

\* C6 as stated: for a field named *__in, *__not_in, *__bbox or the ordering
\* field, split_str given a string returns a sequence of comma count + 1
\* elements, the i-th being the i-th piece coerced to the field's type.
C6_SplitAlwaysYieldsCoercedPieces ==
    (Applies /\ vpc # "start") =>
        /\ vpc \in {"returned", "drained"}
        /\ vout.kind = "list" \/ vpc = "drained" =>
               IsCoercedPieces(vout.items, vfield.type_, vvalue.s)

\* C6 amended: for such a field and a string, split_str either raises the
\* coercion error of field.type_, exactly when some comma-separated piece does
\* not coerce (for a tuple-shaped field, when the returned generator is
\* consumed), or yields a sequence of comma count + 1 elements, the i-th being
\* the i-th piece coerced to field.type_; a tuple-shaped field gets a generator
\* and any other field a list.
C6_SplitYieldsCoercedPiecesOrRaises ==
    (Applies /\ vpc # "start") =>
        LET n == CommaCount(vvalue.s) + 1
            allCoerce == \A k \in 1..n : Coercible(vfield.type_, Piece(vvalue.s, k))
        IN  /\ vpc = "raised" => (~allCoerce /\ vout.err = "ValueError")
            /\ vpc = "returned" =>
                   IF vfield.shape = "SHAPE_TUPLE"
                   THEN /\ vout.kind = "generator"
                        /\ Len(vout.pending) = n
                        /\ \A k \in 1..n : vout.pending[k] = Piece(vvalue.s, k)
                   ELSE /\ vout.kind = "list"
                        /\ allCoerce
                        /\ IsCoercedPieces(vout.items, vfield.type_, vvalue.s)
            /\ vpc = "drained" =>
                   /\ vfield.shape = "SHAPE_TUPLE"
                   /\ allCoerce
                   /\ IsCoercedPieces(vout.items, vfield.type_, vvalue.s)

C6_Witness ==
    /\ Applies
    /\ vpc = "returned"
    /\ vout.kind = "list"
    /\ vfield.type_ = "int"
    /\ vvalue.s = <<"1", "2", ",", "2">>
    /\ vout.items = <<IntVal(12), IntVal(2)>>

-----------------------------------------------------------------------------
(* Properties of BoundingBox and bbox_to_geometry (specification SpecBBox) *)

InRange(b) ==
    /\ Len(b) = 4
    /\ b[1] >= -90 /\ b[1] <= 90
    /\ b[2] >= -180 /\ b[2] <= 180
    /\ b[3] >= -90 /\ b[3] <= 90
    /\ b[4] >= -180 /\ b[4] <= 180

\* C8: for every 4-tuple of in-range numbers, bbox_to_geometry and the "bbox"
\* entry of the transform table produce an envelope built from the four bounds
\* in the given order and tagged with reference system 4326.
C8_EnvelopeTaggedWithSrid ==
    (bpc \in {"converted", "transformed"} /\ InRange(bbox)) =>
        /\ bout.value.fn = "ST_MakeEnvelope"
        /\ SubSeq(bout.value.args, 1, 4) = bbox
        /\ Len(bout.value.args) = 5
        /\ bout.value.args[5] = SRS_WGS_84

\* C9: every tuple the BoundingBox type accepts has its latitude components in
\* [-90, 90] and its longitude components in [-180, 180]; a tuple with a
\* component outside its range is rejected.
C9_AcceptedBoxIsInRange ==
    /\ bpc = "accepted" => InRange(bbox)
    /\ (bpc = "rejected" /\ Len(bbox) = 4) => ~InRange(bbox)

-----------------------------------------------------------------------------
(* Specifications *)

Init == InitFilter /\ IdleSplit /\ IdleBBox
Spec == Init /\ [][Next]_vars

SplitInit == IdleFilter /\ InitSplit /\ IdleBBox
SpecSplit == SplitInit /\ [][NextSplit]_vars

BBoxInit == IdleFilter /\ IdleSplit /\ InitBBox
SpecBBox == BBoxInit /\ [][NextBBox]_vars

====
